---------------------------- MODULE Spec2Model ----------------------------
(***************************************************************************)
(* A model of ampyche.py, a client of the Ampache XML API: the parsing     *)
(* functions (_get_text, _dictify, _get_objects), the entity constructors  *)
(* and the AmpacheServer session with its operations.                      *)
(*                                                                         *)
(* Python values are tagged records ([py |-> "str", v |-> ...]), a dict is *)
(* a function from its keys, a DOM node is a record with the fields of     *)
(* xml.dom.minidom that the code reads.  Documents hold element, text and  *)
(* CDATA nodes (comments and processing instructions are left out).        *)
(***************************************************************************)
EXTENDS Integers, Sequences, FiniteSets, TLC

(***************************************************************************)
(* Bounds of the model.                                                    *)
(***************************************************************************)
\* most entity elements of one response document
MaxEntities == 2
\* most <tag> elements under one entity element
MaxTags == 3

(***************************************************************************)
(* Python values.                                                          *)
(***************************************************************************)
None == [py |-> "NoneType"]
PyStr(s) == [py |-> "str", v |-> s]
PyBool(b) == [py |-> "bool", v |-> b]
PyInt(i) == [py |-> "int", v |-> i]
PyList(l) == [py |-> "list", v |-> l]

\* bool(v), as `if v:` evaluates it
Truth(v) ==
  CASE v.py = "NoneType" -> FALSE
    [] v.py = "str" -> v.v # ""
    [] v.py = "bool" -> v.v
    [] v.py = "int" -> v.v # 0
    [] v.py = "list" -> v.v # <<>>

\* str(v) for the values the operations pass to urlencode
Str(v) ==
  CASE v.py = "NoneType" -> "None"
    [] v.py = "str" -> v.v
    [] v.py = "bool" -> (IF v.v THEN "True" ELSE "False")
    [] v.py = "int" -> ToString(v.v)

\* LET x == e IN F(x), with e evaluated once however often F reads x
Bind(e, F(_)) == CHOOSE r \in {F(x) : x \in {e}} : TRUE

EmptyDict == [k \in {} |-> None]
\* d[k] = v
DictSet(d, k, v) ==
  Bind(<<d, v>>, LAMBDA a :
    [x \in (DOMAIN a[1]) \cup {k} |-> IF x = k THEN a[2] ELSE a[1][x]])
\* del d[k]
DictDel(d, k) == Bind(d, LAMBDA a : [x \in (DOMAIN a) \ {k} |-> a[x]])

(***************************************************************************)
(* Exceptions.                                                             *)
(***************************************************************************)
NoExc == [type |-> "none"]
Exc(t) == [type |-> t]
AmpacheAPIError(code, message) ==
  [type |-> "AmpacheAPIError", code |-> code, message |-> message]

(***************************************************************************)
(* xml.dom.minidom nodes.  attrs is a set of <<name, value>> pairs.        *)
(***************************************************************************)
TextNode(s) ==
  [nodeType |-> "TEXT_NODE", tagName |-> "", attrs |-> {}, data |-> s,
   childNodes |-> <<>>]
CDataNode(s) ==
  [nodeType |-> "CDATA_SECTION_NODE", tagName |-> "", attrs |-> {}, data |-> s,
   childNodes |-> <<>>]
Element(tag, attrs, children) ==
  [nodeType |-> "ELEMENT_NODE", tagName |-> tag, attrs |-> attrs, data |-> "",
   childNodes |-> children]
Document(root) ==
  [nodeType |-> "DOCUMENT_NODE", tagName |-> "", attrs |-> {}, data |-> "",
   childNodes |-> <<root>>]

hasAttribute(node, a) == \E p \in node.attrs : p[1] = a
getAttribute(node, a) ==
  IF hasAttribute(node, a) THEN (CHOOSE p \in node.attrs : p[1] = a)[2] ELSE ""

IsText(node) == node.nodeType \in {"TEXT_NODE", "CDATA_SECTION_NODE"}

RECURSIVE ElementsBelow(_)
\* every element below node, in document order
ElementsBelow(node) ==
  LET F[i \in 0..Len(node.childNodes)] ==
        IF i = 0 THEN <<>>
        ELSE LET c == node.childNodes[i]
             IN  F[i - 1] \o (IF c.nodeType = "ELEMENT_NODE"
                                THEN <<c>> \o ElementsBelow(c) ELSE <<>>)
  IN  F[Len(node.childNodes)]

getElementsByTagName(node, name) ==
  SelectSeq(ElementsBelow(node), LAMBDA e : e.tagName = name)


(***************************************************************************)
(* Parsing functions.                                                      *)
(***************************************************************************)
\* the text of the direct text and CDATA children of element, concatenated
_get_text(element) ==
  LET F[i \in 0..Len(element.childNodes)] ==
        IF i = 0 THEN ""
        ELSE LET node == element.childNodes[i]
             IN  F[i - 1] \o (IF IsText(node) THEN node.data ELSE "")
  IN  F[Len(element.childNodes)]

\* the dict of the child elements of element: tag name -> text, and
\* tag name + 'id' -> id attribute for a child that has one; last child wins
_dictify(element) ==
  LET F[i \in 0..Len(element.childNodes)] ==
        IF i = 0 THEN EmptyDict
        ELSE Bind(<<F[i - 1], element.childNodes[i]>>, LAMBDA a :
               LET d == a[1]
                   node == a[2]
               IN  IF ~IsText(node)
                     THEN DictSet(IF hasAttribute(node, "id")
                                    THEN DictSet(d, node.tagName \o "id",
                                                 PyStr(getAttribute(node, "id")))
                                    ELSE d,
                                  node.tagName, PyStr(_get_text(node)))
                     ELSE d)
  IN  F[Len(element.childNodes)]

(***************************************************************************)
(* str.title(): the first letter of every run of letters in upper case,    *)
(* the other letters in lower case.                                        *)
(***************************************************************************)
LowerCase == "abcdefghijklmnopqrstuvwxyz"
UpperCase == "ABCDEFGHIJKLMNOPQRSTUVWXYZ"
CharAt(s, i) == SubSeq(s, i, i)
\* the position of character c in alphabet, 0 when it is not in it
IndexIn(alphabet, c) ==
  IF \E i \in 1..Len(alphabet) : CharAt(alphabet, i) = c
    THEN CHOOSE i \in 1..Len(alphabet) : CharAt(alphabet, i) = c
    ELSE 0
IsLetter(c) == IndexIn(LowerCase, c) > 0 \/ IndexIn(UpperCase, c) > 0
ToUpper(c) ==
  IF IndexIn(LowerCase, c) > 0 THEN CharAt(UpperCase, IndexIn(LowerCase, c)) ELSE c
ToLower(c) ==
  IF IndexIn(UpperCase, c) > 0 THEN CharAt(LowerCase, IndexIn(UpperCase, c)) ELSE c
Title(s) ==
  LET F[i \in 0..Len(s)] ==
        IF i = 0 THEN ""
        ELSE LET c == CharAt(s, i)
                 afterLetter == i > 1 /\ IsLetter(CharAt(s, i - 1))
             IN  F[i - 1] \o (IF afterLetter THEN ToLower(c) ELSE ToUpper(c))
  IN  F[Len(s)]

(***************************************************************************)
(* The module's global names and the entity classes.                       *)
(***************************************************************************)
\* the keys of globals() in ampyche.py
GlobalNames ==
  {"__builtins__", "__doc__", "__file__", "__name__", "__package__",
   "namedtuple", "sha256", "join", "time", "urlopen", "urlencode", "Node",
   "parse", "BaseObject", "Artist", "Album", "Song", "Tag", "Playlist",
   "Video", "AmpacheAPIError", "_get_text", "_dictify", "_get_objects",
   "AmpacheServer"}

EntityClasses == {"Artist", "Album", "Song", "Tag", "Playlist", "Video"}

\* the keyword parameters of each entity class's __init__
Params(class) ==
  CASE class = "Artist" ->
         {"id", "name", "albums", "songs", "tags", "preciserating", "rating"}
    [] class = "Album" ->
         {"id", "name", "artist", "artistid", "tracks", "disk", "tags", "art",
          "preciserating", "rating"}
    [] class = "Song" ->
         {"id", "title", "mime", "genre", "genreid", "artist", "artistid",
          "album", "albumid", "tags", "track", "time", "url", "size", "art",
          "preciserating", "rating"}
    [] class = "Tag" ->
         {"id", "name", "albums", "songs", "video", "playlist", "stream"}
    [] class = "Playlist" -> {"id", "name", "owner", "items", "tags", "type"}
    [] class = "Video" ->
         {"id", "title", "mime", "resolution", "size", "tags", "url"}
    [] OTHER -> {}

\* constructor(**d): Python rejects a keyword that is no parameter of
\* __init__ with a TypeError; a parameter without a keyword keeps its
\* default, None.  Any other global called this way (xml.dom.Node, which
\* takes no arguments, is the one title() can reach) raises TypeError too.
Instantiate(class, d) ==
  IF class \in EntityClasses /\ DOMAIN d \subseteq Params(class)
    THEN [raised |-> NoExc,
          value |-> [class |-> class,
                     attrs |-> [p \in Params(class) |->
                                  IF p \in DOMAIN d THEN d[p] ELSE None]]]
    ELSE [raised |-> Exc("TypeError"), value |-> None]

(***************************************************************************)
(* _get_objects.                                                           *)
(***************************************************************************)
\* collect_tags taking the id of the tag element instead of the entity's
collect_tags_own_id(node) ==
  Bind(getElementsByTagName(node, "tag"), LAMBDA found :
    [j \in 1..Len(found) |->
       <<getAttribute(found[j], "id"), _get_text(found[j])>>])

\* the tags list of an entity element: one (id of the entity, text of the
\* tag) tuple for every tag element below it
collect_tags(node) ==
  Bind(getElementsByTagName(node, "tag"), LAMBDA found :
    [j \in 1..Len(found) |-> <<getAttribute(node, "id"), _get_text(found[j])>>])

\* the keyword arguments _get_objects builds for one element
entity_kwargs(node, tagname) ==
  Bind(DictSet(_dictify(node), "id", PyStr(getAttribute(node, "id"))), LAMBDA d1 :
  Bind(IF tagname # "tag"
         THEN DictSet(d1, "tags", PyList(collect_tags(node)))
         ELSE d1, LAMBDA d2 :
  Bind(IF "tag" \in DOMAIN d2 THEN DictDel(d2, "tag") ELSE d2, LAMBDA d3 :
    IF "tagid" \in DOMAIN d3 THEN DictDel(d3, "tagid") ELSE d3)))

\* raised: the exception that ends the call (NoExc when it returns);
\* value: the list returned; scanned: whether the document was searched;
\* calls: the keyword arguments of every constructor call made
_get_objects(element, tagname) ==
  IF Title(tagname) \notin GlobalNames
    THEN [raised |-> AmpacheAPIError(PyInt(9001), "Bad tag name: " \o tagname),
          value |-> <<>>, scanned |-> FALSE, calls |-> <<>>]
    ELSE
      Bind(<<Title(tagname), getElementsByTagName(element, tagname)>>, LAMBDA a :
        LET constructor == a[1]
            nodes == a[2]
            F[i \in 0..Len(nodes)] ==
              IF i = 0
                THEN [raised |-> NoExc, value |-> <<>>, scanned |-> TRUE,
                      calls |-> <<>>]
                ELSE
                  Bind(F[i - 1], LAMBDA prev :
                    IF prev.raised.type # "none" THEN prev
                    ELSE
                      Bind(entity_kwargs(nodes[i], tagname), LAMBDA d :
                      Bind(Instantiate(constructor, d), LAMBDA made :
                        IF made.raised.type # "none"
                          THEN [raised |-> made.raised, value |-> <<>>,
                                scanned |-> TRUE, calls |-> Append(prev.calls, d)]
                          ELSE [raised |-> NoExc,
                                value |-> Append(prev.value, made.value),
                                scanned |-> TRUE,
                                calls |-> Append(prev.calls, d)])))
        IN  F[Len(nodes)])

(***************************************************************************)
(* The response documents the transport may deliver.                       *)
(***************************************************************************)
Kinds == {"artist", "album", "song", "tag", "playlist", "video"}

\* the element that names an entity of the kind
NameField(kind) == IF kind \in {"song", "video"} THEN "title" ELSE "name"

\* the j-th tag element of an entity: the second differs from the first in
\* its text, the third repeats the first
TagElement(j) ==
  Element("tag",
          IF j % 2 = 1 THEN {<<"id", ToString(10 + j)>>} ELSE {},
          <<TextNode(IF j % 3 = 2 THEN "jazz" ELSE "rock")>>)

TagElements(t) == [j \in 1..t |-> TagElement(j)]

\* an entity element of the kind with t tag elements below it; the shape
\* "ref" gives an album or a song the artist it refers to, with the artist's
\* id, and the shape "extra" gives the entity a field its class does not have
EntityElement(kind, id, shape, t) ==
  LET name == NameField(kind)
      children ==
        CASE shape = "bare" -> TagElements(t)
          [] shape = "named" ->
               <<TextNode(" "),
                 Element(name, {},
                         <<TextNode("Ba"), Element("b", {}, <<TextNode("x")>>),
                           CDataNode("ch")>>)>>
               \o TagElements(t)
          [] shape = "ref" ->
               (IF kind \in {"album", "song"}
                  THEN <<Element("artist", {<<"id", "9">>}, <<TextNode("Bach")>>)>>
                  ELSE <<Element(name, {}, <<CDataNode("Bach")>>)>>)
               \o TagElements(t)
          [] shape = "extra" ->
               <<Element(name, {}, <<TextNode("Bach")>>),
                 Element("year", {}, <<TextNode("1999")>>)>>
               \o TagElements(t)
          [] shape = "deep" ->
               <<Element(name, {}, <<TextNode("Bach")>> \o TagElements(t))>>
          [] shape = "twice" ->
               TagElements(t)
               \o <<Element(name, {}, <<TextNode("Old")>>),
                    Element(name, {}, <<TextNode("New")>>)>>
  IN  Element(kind, {<<"id", id>>}, children)

ShapeSeq == <<"bare", "named", "ref", "extra", "deep", "twice">>

\* n entity elements of the kind; the i-th has the shape and the number of
\* tags that follow those of the one before it
EntityElements(kind, n, s, t) ==
  [i \in 1..n |->
     EntityElement(kind, ToString(i), ShapeSeq[((s + i - 2) % Len(ShapeSeq)) + 1],
                   (t + i - 1) % (MaxTags + 1))]

\* an entity listing: the entities below the root, or one level deeper
ListingDoc(kind, n, s, t, nested) ==
  LET es == EntityElements(kind, n, s, t)
  IN  Document(Element("root", {},
                       IF nested THEN <<Element("group", {}, es)>> ELSE es))

ListingDocs ==
  {ListingDoc(kind, n, s, t, nested) :
     kind \in Kinds, n \in 0..MaxEntities, s \in 1..Len(ShapeSeq),
     t \in 0..MaxTags, nested \in BOOLEAN}

ErrorElement(code, message) ==
  Element("error", {<<"code", code>>}, <<TextNode(message)>>)

ErrorDocs ==
  {Document(Element("root", {}, <<ErrorElement("4710", "Invalid Handshake")>>)),
   Document(Element("root", {}, <<ErrorElement("4701", "Session Expired")>>)),
   Document(ErrorElement("4700", "Access Denied")),
   Document(Element("root", {},
                    <<EntityElement("song", "1", "named", 1),
                      ErrorElement("4710", "Invalid Handshake")>>)),
   Document(Element("root", {},
                    <<Element("group", {},
                              <<Element("error", {}, <<CDataNode("No code")>>)>>)>>)),
   Document(Element("root", {},
                    <<ErrorElement("4710", "Invalid Handshake"),
                      ErrorElement("4701", "Session Expired")>>))}

Tokens == {"tok1", ""}

HandshakeDocs ==
  {Document(Element("root", {},
                    <<Element("auth", {}, <<TextNode(tok)>>),
                      Element("api", {}, <<TextNode("350001")>>)>>)) :
     tok \in Tokens}
  \cup {Document(Element("root", {}, <<Element("api", {}, <<TextNode("350001")>>)>>))}

Docs == ListingDocs \cup ErrorDocs \cup HandshakeDocs

(***************************************************************************)
(* The state: one AmpacheServer object, the interpreter flag that decides  *)
(* whether assert statements run, and the call in progress.                *)
(***************************************************************************)
VARIABLES
  optimize,     \* TRUE when Python runs with -O (assert statements removed)
  constructed,  \* TRUE once AmpacheServer.__init__ has returned
  server,       \* self.server
  auth,         \* self.auth
  failed,       \* TRUE once a call on the constructed session has raised
  last          \* the call the caller is looking at the result of

vars == <<optimize, constructed, server, auth, failed, last>>

\* the protocol version handshake sends
APIVersion == 350001

\* os.path.join(a, b) for a relative b
join(a, b) ==
  IF a = "" \/ CharAt(a, Len(a)) = "/" THEN a \o b ELSE a \o "/" \o b

\* sha256(s).hexdigest(), kept symbolic
Sha256Hex(s) == "sha256(" \o s \o ")"

(***************************************************************************)
(* The transport: urlopen either raises IOError or delivers a body, which  *)
(* parse either rejects or turns into a document.  _request opens the URL  *)
(* twice, so the network answers twice.                                    *)
(***************************************************************************)
NoReply == [kind |-> "none", dom |-> None]
IOErrorReply == [kind |-> "IOError", dom |-> None]
MalformedReply == [kind |-> "malformed", dom |-> None]
XmlReply(doc) == [kind |-> "xml", dom |-> doc]
\* a body that is read and printed, never parsed
BodyReply == [kind |-> "body", dom |-> None]

\* the documents the session operations receive
ServerDocs ==
  ErrorDocs \cup HandshakeDocs
  \cup {ListingDoc(kind, n, s, MaxTags, FALSE) :
          kind \in {"artist", "album", "song"}, n \in 0..MaxEntities,
          s \in 1..3}

Replies == {IOErrorReply, MalformedReply} \cup {XmlReply(doc) : doc \in ServerDocs}

\* first answers the urlopen of the print statement, second the urlopen
\* whose body is parsed
Nets ==
  {[first |-> IOErrorReply, second |-> NoReply]}
  \cup {[first |-> BodyReply, second |-> r] : r \in Replies}

\* urlencode(kwargs.items()): every value goes through str(); the
\* percent-escaping is urllib's
urlencode(kwargs) == Bind(kwargs, LAMBDA kw : [k \in DOMAIN kw |-> Str(kw[k])])

\* the arguments whose value is true: `if v: tmp[k] = v`
filter_kwargs(kwargs) ==
  Bind(kwargs, LAMBDA kw : [k \in {x \in DOMAIN kw : Truth(kw[x])} |-> kw[k]])

\* add_auth overwriting the auth the caller gave
add_auth_always(self, tmp) == DictSet(tmp, "auth", PyStr(self.auth))

\* `if 'auth' not in kwargs: kwargs['auth'] = self.auth`
add_auth(self, tmp) ==
  IF "auth" \notin DOMAIN tmp THEN DictSet(tmp, "auth", PyStr(self.auth)) ELSE tmp

\* raise_for_errors with `len(errors) > 1` for `len(errors) >= 1`
raise_for_errors_late(errors) ==
  IF Len(errors) > 1
    THEN IF ~optimize
           THEN Exc("AssertionError")
           ELSE AmpacheAPIError(PyStr(getAttribute(errors[1], "code")),
                                _get_text(errors[1]))
    ELSE NoExc

\* what the error elements of a response make _request raise: nothing when
\* there is none; the assert stops a response with several unless Python
\* runs with -O, and then the loop raises for the first
raise_for_errors(errors) ==
  IF Len(errors) >= 1
    THEN IF Len(errors) # 1 /\ ~optimize
           THEN Exc("AssertionError")
           ELSE AmpacheAPIError(PyStr(getAttribute(errors[1], "code")),
                                _get_text(errors[1]))
    ELSE NoExc

\* self: [server, hasAuth, auth].  raised: the exception that ends the call;
\* dom: the document returned; sent: the requests handed to urlopen, in
\* order; reply: the answer that was parsed
_request(self, kwargs, net) ==
  Bind(filter_kwargs(kwargs), LAMBDA tmp :
    IF "auth" \notin DOMAIN tmp /\ ~self.hasAuth
      THEN [raised |-> Exc("AttributeError"), dom |-> None, sent |-> <<>>,
            reply |-> NoReply]
      ELSE
        Bind([url |-> self.server, query |-> urlencode(add_auth(self, tmp))],
             LAMBDA req :
          IF net.first.kind = "IOError"
            THEN [raised |-> Exc("IOError"), dom |-> None, sent |-> <<req>>,
                  reply |-> NoReply]
          ELSE IF net.second.kind = "IOError"
            THEN [raised |-> Exc("IOError"), dom |-> None, sent |-> <<req, req>>,
                  reply |-> net.second]
          ELSE IF net.second.kind = "malformed"
            THEN [raised |-> Exc("ExpatError"), dom |-> None,
                  sent |-> <<req, req>>, reply |-> net.second]
          ELSE
            Bind(raise_for_errors(getElementsByTagName(net.second.dom, "error")),
                 LAMBDA exc :
              [raised |-> exc,
               dom |-> IF exc.type = "none" THEN net.second.dom ELSE None,
               sent |-> <<req, req>>, reply |-> net.second])))

(***************************************************************************)
(* What a call leaves for its caller.                                      *)
(***************************************************************************)
NoValue == [kind |-> "none", v |-> None]
DictValue(d) == [kind |-> "dict", v |-> d]
ListValue(l) == [kind |-> "list", v |-> l]
EntityValue(e) == [kind |-> "entity", v |-> e]
SessionValue(srv, tok) == [kind |-> "session", v |-> [server |-> srv, auth |-> tok]]

NoRequest == [raised |-> NoExc, dom |-> None, sent |-> <<>>, reply |-> NoReply]
NoObjects == [raised |-> NoExc, value |-> <<>>, scanned |-> FALSE, calls |-> <<>>]

\* op: the operation; args: the keyword arguments it gave _request; routed:
\* whether it reached _request; sent, reply: as _request left them; parsed:
\* whether _get_objects ran, on element for tagname, with the result objs;
\* raised, value: how the operation ended
Outcome(op, routed, args, rq, parsed, tagname, objs, raised, value) ==
  [op |-> op, routed |-> routed, args |-> args, sent |-> rq.sent,
   reply |-> rq.reply, parsed |-> parsed, element |-> rq.dom,
   tagname |-> tagname, objs |-> objs, raised |-> raised, value |-> value]

NoCall == Outcome("none", FALSE, EmptyDict, NoRequest, FALSE, "", NoObjects, NoExc, NoValue)

\* an operation that asks _request and returns value when no error is raised
Routed(op, kwargs, rq, value) ==
  Outcome(op, TRUE, kwargs, rq, FALSE, "", NoObjects, rq.raised,
          IF rq.raised.type = "none" THEN value ELSE NoValue)

\* an operation that asks _request and hands the document to _get_objects
Listed(op, kwargs, rq, tagname) ==
  IF rq.raised.type # "none"
    THEN Outcome(op, TRUE, kwargs, rq, FALSE, "", NoObjects, rq.raised, NoValue)
    ELSE Bind(_get_objects(rq.dom, tagname), LAMBDA objs :
           Outcome(op, TRUE, kwargs, rq, TRUE, tagname, objs, objs.raised,
                   IF objs.raised.type = "none"
                     THEN ListValue(objs.value) ELSE NoValue))

\* an operation stopped by its own assert statement
Asserted(op) ==
  Outcome(op, FALSE, EmptyDict, NoRequest, FALSE, "", NoObjects,
          Exc("AssertionError"), NoValue)

(***************************************************************************)
(* The operations of AmpacheServer.                                        *)
(***************************************************************************)
handshake(self, username, password, now, net) ==
  LET ts == ToString(now)
      passphrase == Sha256Hex(ts \o Sha256Hex(password))
  IN  Bind([action |-> PyStr("handshake"), auth |-> PyStr(passphrase),
            timestamp |-> PyStr(ts), version |-> PyInt(APIVersion),
            user |-> username], LAMBDA kwargs :
      Bind(_request(self, kwargs, net), LAMBDA rq :
        Routed("handshake", kwargs, rq,
               IF rq.raised.type = "none"
                 THEN DictValue(_dictify(rq.dom.childNodes[1])) ELSE NoValue)))

\* init with `.get('auth', '')` for `['auth']`
init_default(srv, username, password, now, net) ==
  Bind([server |-> join(srv, "server/xml.server.php?"), hasAuth |-> FALSE,
        auth |-> ""], LAMBDA self :
  Bind(handshake(self, username, password, now, net), LAMBDA h :
    IF h.raised.type # "none" THEN [h EXCEPT !.op = "__init__"]
    ELSE [h EXCEPT !.op = "__init__",
                   !.value = SessionValue(self.server,
                                          IF "auth" \in DOMAIN h.value.v
                                            THEN h.value.v["auth"].v ELSE "")]))

\* AmpacheServer(server, username, password)
init(srv, username, password, now, net) ==
  Bind([server |-> join(srv, "server/xml.server.php?"), hasAuth |-> FALSE,
        auth |-> ""], LAMBDA self :
  Bind(handshake(self, username, password, now, net), LAMBDA h :
    IF h.raised.type # "none" THEN [h EXCEPT !.op = "__init__"]
    ELSE IF "auth" \notin DOMAIN h.value.v
      THEN [h EXCEPT !.op = "__init__", !.raised = Exc("KeyError"),
                     !.value = NoValue]
      ELSE [h EXCEPT !.op = "__init__",
                     !.value = SessionValue(self.server, h.value.v["auth"].v)]))

ping(self, net) ==
  Bind(_request(self, [action |-> PyStr("ping")], net), LAMBDA rq :
    Routed("ping", [action |-> PyStr("ping")], rq,
           IF rq.raised.type = "none" THEN DictValue(_dictify(rq.dom)) ELSE NoValue))

url_to_song(self, url, net) ==
  Bind([action |-> PyStr("url_to_song"), url |-> url], LAMBDA kwargs :
  Bind(_request(self, kwargs, net), LAMBDA rq :
  Bind(Listed("url_to_song", kwargs, rq, "song"), LAMBDA got :
    IF got.raised.type # "none" THEN got
    ELSE IF Len(got.objs.value) # 1
      THEN Outcome("url_to_song", TRUE, kwargs, rq, TRUE, "song", got.objs,
                   Exc("ValueError"), NoValue)
      ELSE Outcome("url_to_song", TRUE, kwargs, rq, TRUE, "song", got.objs,
                   NoExc, EntityValue(got.objs.value[1])))))

artists(self, filter, exact, add, update, net) ==
  Bind([action |-> PyStr("artists"), filter |-> filter, exact |-> exact,
        add |-> add, update |-> update], LAMBDA kwargs :
  Bind(_request(self, kwargs, net), LAMBDA rq :
    Listed("artists", kwargs, rq, "artist")))

artist_songs(self, filter, net) ==
  Bind([action |-> PyStr("artist_songs"), filter |-> filter], LAMBDA kwargs :
  Bind(_request(self, kwargs, net), LAMBDA rq :
    Listed("artist_songs", kwargs, rq, "song")))

artist_albums(self, filter, net) ==
  Bind([action |-> PyStr("artist_albums"), filter |-> filter], LAMBDA kwargs :
  Bind(_request(self, kwargs, net), LAMBDA rq :
    Listed("artist_albums", kwargs, rq, "album")))

localplay(self, command, net) ==
  IF ~optimize /\ command \notin {PyStr("next"), PyStr("prev"), PyStr("stop"),
                                    PyStr("play")}
    THEN Asserted("localplay")
    ELSE Bind([action |-> PyStr("localplay"), command |-> command], LAMBDA kwargs :
         Bind(_request(self, kwargs, net), LAMBDA rq :
           Routed("localplay", kwargs, rq, NoValue)))

democratic(self, method, oid, net) ==
  IF ~optimize /\ ~(Truth(oid) \/ method \notin {PyStr("vote"), PyStr("devote")})
    THEN Asserted("democratic")
    ELSE Bind([action |-> PyStr("democratic"), method |-> method, oid |-> oid],
              LAMBDA kwargs :
         Bind(_request(self, kwargs, net), LAMBDA rq :
           Routed("democratic", kwargs, rq, NoValue)))

(***************************************************************************)
(* The inputs of the calls.                                                *)
(***************************************************************************)
Servers == {"http://a", "http://b/"}
Users == {PyStr("amy"), PyStr("")}
Passwords == {"pw"}
Times == {1000, 1001}
Filters == {PyStr("Bach"), PyStr("")}
Flags == {PyBool(FALSE), PyBool(TRUE)}
Dates == {None, PyStr("2020-01-01")}
Urls == {PyStr("http://a/play/1"), None}
Commands == {PyStr("play"), PyStr("next"), PyStr("pause")}
Methods == {PyStr("vote"), PyStr("play")}
Oids == {None, PyInt(0), PyInt(7)}
\* the tag names _get_objects is asked for
TagNames ==
  Kinds \cup {"node", "Node", "Artist", "SONG", "artists", "error", "baseobject", ""}

(***************************************************************************)
(* The actions: one per call, and the caller taking the result.            *)
(***************************************************************************)
Idle == last.op = "none"
Self == [server |-> server, hasAuth |-> TRUE, auth |-> auth]

Init ==
  /\ optimize \in BOOLEAN
  /\ constructed = FALSE
  /\ server = ""
  /\ auth = ""
  /\ failed = FALSE
  /\ last = NoCall

\* a call on the constructed session ends with outcome
Finish(outcome) ==
  \E out \in {outcome} :
    /\ last' = out
    /\ failed' = (failed \/ out.raised.type # "none")
    /\ UNCHANGED <<optimize, constructed, server, auth>>

Construct ==
  /\ Idle /\ ~constructed
  /\ \E srv \in Servers, u \in Users, p \in Passwords, now \in Times, net \in Nets :
       \E made \in {init(srv, u, p, now, net)} :
         /\ last' = made
         /\ IF made.raised.type = "none"
              THEN /\ constructed' = TRUE
                   /\ server' = made.value.v.server
                   /\ auth' = made.value.v.auth
              ELSE UNCHANGED <<constructed, server, auth>>
         /\ UNCHANGED <<optimize, failed>>

\* Handshake storing the token it is given in self.auth
HandshakeStoresToken ==
  /\ Idle /\ constructed
  /\ \E u \in Users, p \in Passwords, now \in Times, net \in Nets :
       \E out \in {handshake(Self, u, p, now, net)} :
         /\ last' = out
         /\ failed' = (failed \/ out.raised.type # "none")
         /\ auth' = IF out.raised.type = "none" /\ "auth" \in DOMAIN out.value.v
                      THEN out.value.v["auth"].v ELSE auth
         /\ UNCHANGED <<optimize, constructed, server>>

Handshake ==
  /\ Idle /\ constructed
  /\ \E u \in Users, p \in Passwords, now \in Times, net \in Nets :
       Finish(handshake(Self, u, p, now, net))

Ping ==
  /\ Idle /\ constructed
  /\ \E net \in Nets : Finish(ping(Self, net))

UrlToSong ==
  /\ Idle /\ constructed
  /\ \E url \in Urls, net \in Nets : Finish(url_to_song(Self, url, net))

Artists ==
  /\ Idle /\ constructed
  /\ \E filter \in Filters, exact \in Flags, add \in Dates, update \in Dates,
        net \in Nets :
       Finish(artists(Self, filter, exact, add, update, net))

ArtistSongs ==
  /\ Idle /\ constructed
  /\ \E filter \in Filters, net \in Nets : Finish(artist_songs(Self, filter, net))

ArtistAlbums ==
  /\ Idle /\ constructed
  /\ \E filter \in Filters, net \in Nets : Finish(artist_albums(Self, filter, net))

Localplay ==
  /\ Idle /\ constructed
  /\ \E command \in Commands, net \in Nets : Finish(localplay(Self, command, net))

Democratic ==
  /\ Idle /\ constructed
  /\ \E method \in Methods, oid \in Oids, net \in Nets :
       Finish(democratic(Self, method, oid, net))

\* the caller has seen the result or caught the exception
Return ==
  /\ ~Idle
  /\ last' = NoCall
  /\ UNCHANGED <<optimize, constructed, server, auth, failed>>

Next ==
  \/ Construct
  \/ Handshake
  \/ Ping
  \/ UrlToSong
  \/ Artists
  \/ ArtistSongs
  \/ ArtistAlbums
  \/ Localplay
  \/ Democratic
  \/ Return

Spec == Init /\ [][Next]_vars

(***************************************************************************)
(* _get_objects called on its own, on every document and tag name.         *)
(***************************************************************************)
GetObjects ==
  /\ Idle
  /\ \E doc \in Docs, tagname \in TagNames :
       \E objs \in {_get_objects(doc, tagname)} :
         last' = Outcome("_get_objects", FALSE, EmptyDict,
                         [NoRequest EXCEPT !.dom = doc], TRUE, tagname, objs,
                         objs.raised,
                         IF objs.raised.type = "none"
                           THEN ListValue(objs.value) ELSE NoValue)
  /\ UNCHANGED <<optimize, constructed, server, auth, failed>>

NextParse ==
  \/ GetObjects
  \/ Return

InitParse == Init /\ ~optimize

SpecParse == InitParse /\ [][NextParse]_vars

(***************************************************************************)
(* The claims.                                                             *)
(***************************************************************************)
\* the error elements of the response that the last call parsed
ErrorsOfReply == getElementsByTagName(last.reply.dom, "error")

\* C1: when the parsed response holds exactly one error element, the call
\* fails with AmpacheAPIError carrying that element's code attribute and its
\* text, and it returns nothing: no entity is built.
C1_SingleErrorRaised ==
  (last.routed /\ last.reply.kind = "xml" /\ Len(ErrorsOfReply) = 1) =>
    /\ last.raised.type = "AmpacheAPIError"
    /\ last.raised.code = PyStr(getAttribute(ErrorsOfReply[1], "code"))
    /\ last.raised.message = _get_text(ErrorsOfReply[1])
    /\ last.value = NoValue
    /\ ~last.parsed
    /\ last.objs.calls = <<>>

\* artist_songs got a response with a song element and one error element,
\* and raised the error
C1_Witness ==
  /\ last.op = "artist_songs"
  /\ last.reply.kind = "xml"
  /\ Len(getElementsByTagName(last.reply.dom, "song")) = 1
  /\ Len(ErrorsOfReply) = 1
  /\ last.raised = AmpacheAPIError(PyStr("4710"), "Invalid Handshake")

\* the elements _get_objects was asked to turn into entities
Matching == getElementsByTagName(last.element, last.tagname)

\* C2: for each of the six kinds _get_objects returns one entity per element
\* of the document named after the kind, at any depth, the i-th entity built
\* from the i-th element; no matching element gives the empty list.
C2_OneEntityPerElement ==
  (last.parsed /\ last.tagname \in Kinds) =>
    /\ last.raised.type = "none"
    /\ Len(last.objs.value) = Len(Matching)
    /\ \A i \in 1..Len(Matching) :
         last.objs.value[i].attrs["id"] = PyStr(getAttribute(Matching[i], "id"))

\* the tags list the claim gives the element e: a pair of e's id and the tag's
\* text for every tag element below e
TagsClaimed(e) ==
  LET below == getElementsByTagName(e, "tag")
  IN  PyList([j \in 1..Len(below) |-> <<getAttribute(e, "id"), _get_text(below[j])>>])

\* C3: for a kind other than tag every constructor call gets a tags list with
\* one (id of the entity element, text of the tag) pair per tag element below
\* the entity element, in document order, duplicates kept, and so does every
\* entity returned; no 'tag' or 'tagid' key reaches a constructor; an entity
\* of kind tag has no tags field.
C3_TagsOfEntities ==
  last.parsed =>
    /\ \A i \in 1..Len(last.objs.calls) :
         /\ "tag" \notin DOMAIN last.objs.calls[i]
         /\ "tagid" \notin DOMAIN last.objs.calls[i]
         /\ last.tagname # "tag" =>
              /\ "tags" \in DOMAIN last.objs.calls[i]
              /\ last.objs.calls[i]["tags"] = TagsClaimed(Matching[i])
    /\ \A i \in 1..Len(last.objs.value) :
         IF last.tagname = "tag"
           THEN "tags" \notin DOMAIN last.objs.value[i].attrs
           ELSE last.objs.value[i].attrs["tags"] = TagsClaimed(Matching[i])

\* two songs came back; the second has three tag elements, the second with
\* a text of its own and the third repeating the first, two of them with an
\* id of their own, and carries the song's id in all three pairs, in the
\* order of the document
C3_Witness ==
  /\ last.op = "_get_objects"
  /\ last.tagname = "song"
  /\ Len(last.objs.value) = 2
  /\ last.objs.value[2].attrs["tags"] =
       PyList(<<<<"2", "rock">>, <<"2", "jazz">>, <<"2", "rock">>>>)
  /\ \E e \in {getElementsByTagName(Matching[2], "tag")} :
       Len(e) = 3 /\ getAttribute(e[1], "id") = "11"

\* the class each kind names
ClassOfKind(kind) ==
  CASE kind = "artist" -> "Artist"
    [] kind = "album" -> "Album"
    [] kind = "song" -> "Song"
    [] kind = "tag" -> "Tag"
    [] kind = "playlist" -> "Playlist"
    [] kind = "video" -> "Video"

\* C4: a tag name that is none of the six kinds makes _get_objects fail with
\* AmpacheAPIError 9001 before the document is searched; each of the six
\* names resolves to the class of its kind.
C4_UnknownKindRejected ==
  last.parsed =>
    IF last.tagname \in Kinds
      THEN \A i \in 1..Len(last.objs.value) :
             last.objs.value[i].class = ClassOfKind(last.tagname)
      ELSE /\ last.raised.type = "AmpacheAPIError"
           /\ last.raised.code = PyInt(9001)
           /\ ~last.objs.scanned

\* C5: a key of the mapping that is no field of the kind is ignored and the
\* entity is still built; a field without a key is None.
C5_UnknownKeysIgnored ==
  (last.parsed /\ last.tagname \in Kinds) =>
    /\ last.raised.type # "TypeError"
    /\ Len(last.objs.value) = Len(last.objs.calls)
    /\ \A i \in 1..Len(last.objs.value) :
         \A f \in DOMAIN last.objs.value[i].attrs :
           last.objs.value[i].attrs[f] =
             IF f \in DOMAIN last.objs.calls[i] THEN last.objs.calls[i][f] ELSE None

\* C6: every request handed to the transport carries auth: the value the
\* caller supplied when it supplied one, the session's token otherwise.
C6_AuthOnEveryRequest ==
  last.routed =>
    \A i \in 1..Len(last.sent) :
      /\ "auth" \in DOMAIN last.sent[i].query
      /\ IF "auth" \in DOMAIN last.args
           THEN last.sent[i].query["auth"] = last.args["auth"].v
           ELSE last.sent[i].query["auth"] = auth

\* handshake was called on a live session and its passphrase, not the
\* session's token, went out
C6_Witness ==
  /\ last.op = "handshake"
  /\ constructed
  /\ Len(last.sent) = 2
  /\ last.sent[2].query["auth"] = last.args["auth"].v
  /\ last.sent[2].query["auth"] # auth

\* C7: a parameter is left out of the query exactly when its value
\* is None or empty, and is never sent as an empty string.
C7_OmittedIffNoneOrEmpty ==
  last.routed =>
    \A i \in 1..Len(last.sent) : \A k \in DOMAIN last.args :
      /\ (k \notin DOMAIN last.sent[i].query)
           <=> (last.args[k] = None \/ last.args[k] = PyStr(""))
      /\ k \in DOMAIN last.sent[i].query => last.sent[i].query[k] # ""

\* the root element of the response that the last call parsed
RootOfReply == last.reply.dom.childNodes[1]

\* C8: when the handshake response has no error element and no auth field,
\* the constructor fails with KeyError and no session comes into existence.
C8_NoSessionWithoutAuth ==
  (/\ last.op = "__init__"
   /\ last.reply.kind = "xml"
   /\ Len(ErrorsOfReply) = 0
   /\ \A i \in 1..Len(RootOfReply.childNodes) :
        RootOfReply.childNodes[i].tagName # "auth") =>
    /\ last.raised.type = "KeyError"
    /\ last.value = NoValue
    /\ ~constructed

\* the constructor got a handshake response without auth and raised KeyError
C8_Witness ==
  /\ last.op = "__init__"
  /\ last.reply.kind = "xml"
  /\ Len(ErrorsOfReply) = 0
  /\ last.raised.type = "KeyError"
  /\ ~constructed

\* C9: a call to _request sends exactly one request to the transport.
C9_OneRequestPerCall == last.routed => Len(last.sent) = 1

\* C10: once the session is constructed, no operation changes its token or
\* its endpoint, however the operation ends, and every later request other
\* than handshake's carries that token.
C10_SessionFrame ==
  [][constructed =>
       /\ constructed'
       /\ server' = server
       /\ auth' = auth
       /\ (last'.routed /\ last'.op # "handshake") =>
            \A i \in 1..Len(last'.sent) : last'.sent[i].query["auth"] = auth]_vars

\* after a call on the session has failed, ping went out with the token the
\* constructor stored and succeeded
C10_Witness ==
  /\ constructed
  /\ failed
  /\ last.op = "ping"
  /\ last.raised.type = "none"
  /\ Len(last.sent) = 2
  /\ last.sent[2].query["auth"] = auth
  /\ auth = "tok1"

=============================================================================
